---------------------------- MODULE Spec2Model ----------------------------
(***************************************************************************)
(* Model of vhdl_parser/src/ast/search.rs: the short-circuiting AST walk   *)
(* (trait Search), the hook interface (trait Searcher) and its two         *)
(* implementations, ItemAtCursor and FindAllReferences.                    *)
(*                                                                         *)
(* A search is one synchronous recursive call, so each search is one       *)
(* action.  The searcher carries an instrumentation field `trace`, the     *)
(* sequence of hook invocations (hook name, extent of the node the hook    *)
(* was invoked for, SearchState returned), which plays the role of an      *)
(* instrumented counting Searcher.                                         *)
(*                                                                         *)
(* The AST is laid out on token slots: slot k is the identifier token with *)
(* character range [Stride*k+1, Stride*k+1+TokLen]; every node owns the    *)
(* slot interval `ext`, children own disjoint sub-intervals in document    *)
(* order, so identifier spans never overlap, as in a parsed file.          *)
(***************************************************************************)
EXTENDS Integers, Sequences, FiniteSets, TLC

(* ------------------------------ bounds -------------------------------- *)
\* number of source files; units live in source 1, queries name any source
NumSources == 2
\* width of an identifier token in characters (end - start)
TokLen == 1
\* longest list of declarations / statements / record elements
MaxLen == 2
\* deepest nesting of block / generate statements
MaxNest == 1

Sources == 1..NumSources
\* the source file of the design unit under search
UnitSource == CHOOSE s \in Sources : \A u \in Sources : s <= u
Stride == TokLen + 2

(* --------------------------- SearchResult / SearchState ---------------- *)
Found(value) == [tag |-> "Found", value |-> value]
NotFound == [tag |-> "NotFound"]
Finished(result) == [tag |-> "Finished", result |-> result]
NotFinished == [tag |-> "NotFinished"]

(* ------------------------------ spans ---------------------------------- *)
SrcPos(src, s, e) == [source |-> src, start |-> s, end |-> e]
SlotStart(k) == Stride * k + 1
SlotEnd(k) == Stride * k + 1 + TokLen
\* the identifier token in slot k of the unit's source
TokPos(k) == SrcPos(UnitSource, SlotStart(k), SlotEnd(k))
\* a span covering slots lo..hi
RangePos(lo, hi) == SrcPos(UnitSource, SlotStart(lo), SlotEnd(hi))

\* declaration spans a resolved reference may point to: the unit's own
\* identifier, and a declaration in another source file
DSelf == TokPos(0)
DExt == SrcPos(NumSources, SlotStart(0), SlotEnd(0))
None == <<>>
Some(x) == <<x>>
RefsAll == {None, Some(DSelf), Some(DExt)}
RefsLite == {None, Some(DSelf)}

\* an identifier with its position (Ident = WithPos<Symbol>)
Ident(k) == [pos |-> TokPos(k)]

Max(a, b) == IF a >= b THEN a ELSE b


(* ------------------------------ AST ------------------------------------ *)
(* Node records follow the field names search.rs reads.  `ext` is the slot *)
(* interval <<lo, hi>> the node owns in the document.                      *)

\* slots a node of each family owns
RECURSIVE W(_)
W(k) ==
  CASE k = "Name" -> 2
    [] k = "Sub" -> W("Name") + 1
    [] k = "Param" -> 1 + W("Sub")
    [] k = "Proc" -> 1 + W("Param")
    [] k = "Func" -> 1 + W("Param") + W("Name")
    [] k = "Subp" -> 1 + W("Func")
    [] k = "Iface" -> 1 + W("Subp")
    [] k = "IfaceList" -> MaxLen * W("Iface")
    [] k = "TypeIn" -> 1 + W("Sub")
    [] k = "DeclIn" -> 1 + W("TypeIn")
    [] k = "TypeDef" -> Max(MaxLen * W("Sub"), Max(W("Subp"), W("DeclIn")))
    [] k = "Type" -> 1 + W("TypeDef")
    [] k = "Decl" -> 1 + Max(W("Type"), W("Subp") + W("DeclIn"))
    [] k = "DeclList" -> Max(W("Decl"), MaxLen * W("DeclIn"))
    [] k = "Seq" -> 1 + W("Name")
    [] k = "Stmt0" -> 1 + W("DeclIn") + MaxLen * W("Seq")

Ext(o, w) == <<o, o + w - 1>>

\* all lists of at most n elements, element i drawn from G at its own offset
ListOf(G(_), o, w, n) ==
  UNION { { s \in [1..k -> UNION {G(o + (i - 1) * w) : i \in 1..k}] :
              \A i \in 1..k : s[i] \in G(o + (i - 1) * w) } : k \in 0..n }
Singles(S) == {<<x>> : x \in S}

\* WithPos<WithRef<Designator>>
Designator(o, r) ==
  [kind |-> "Designator", ext |-> Ext(o, 1), pos |-> TokPos(o),
   item |-> [reference |-> r]]
\* WithPos<SelectedName>, variant SelectedName::Designator
SelDesignator(o, r) ==
  [kind |-> "SelectedName", ext |-> Ext(o, 1), pos |-> TokPos(o),
   item |-> [variant |-> "Designator", designator |-> [reference |-> r]]]
\* WithPos<SelectedName>, variant SelectedName::Selected(prefix, designator)
SelSelected(prefix, designator) ==
  [kind |-> "SelectedName", ext |-> <<prefix.ext[1], designator.ext[2]>>,
   pos |-> RangePos(prefix.ext[1], designator.ext[2]),
   item |-> [variant |-> "Selected", prefix |-> prefix, designator |-> designator]]

NamesFull(o) ==
  {SelDesignator(o, r) : r \in RefsAll}
  \cup {SelSelected(SelDesignator(o, p), Designator(o + 1, r)) :
          p \in {None, Some(DExt)}, r \in RefsLite}
NamesLite(o) ==
  {SelDesignator(o, None), SelDesignator(o, Some(DSelf)),
   SelSelected(SelDesignator(o, Some(DExt)), Designator(o + 1, Some(DSelf)))}
NamesTiny(o) == {SelDesignator(o, r) : r \in RefsLite}

SubtypeIndication(o, tm) ==
  [kind |-> "SubtypeIndication", ext |-> Ext(o, W("Sub")), type_mark |-> tm]
SubFull(o) == {SubtypeIndication(o, tm) : tm \in NamesFull(o)}
SubLite(o) == {SubtypeIndication(o, tm) : tm \in NamesLite(o)}
SubTiny(o) == {SubtypeIndication(o, tm) : tm \in NamesTiny(o)}
SubOne(o) == SubtypeIndication(o, SelDesignator(o, Some(DSelf)))

\* InterfaceDeclaration: Object, Subprogram, and the variants not searched
IfaceObject(o, w, st) ==
  [kind |-> "InterfaceDeclaration", ext |-> Ext(o, w), variant |-> "Object",
   ident |-> Ident(o), decl |-> [subtype_indication |-> st]]
IfaceSubprogram(o, w, sd) ==
  [kind |-> "InterfaceDeclaration", ext |-> Ext(o, w), variant |-> "Subprogram",
   ident |-> Ident(o), decl |-> sd]
IfaceOther(o, w) ==
  [kind |-> "InterfaceDeclaration", ext |-> Ext(o, w), variant |-> "File",
   ident |-> Ident(o)]

Params(o) ==
  {<<>>, <<IfaceObject(o, W("Param"), SubOne(o + 1))>>, <<IfaceOther(o, W("Param"))>>}
ProcedureSpecification(o, pl) ==
  [kind |-> "ProcedureSpecification", ext |-> Ext(o, W("Proc")),
   ident |-> Ident(o), parameter_list |-> pl]
FunctionSpecification(o, pl, rt) ==
  [kind |-> "FunctionSpecification", ext |-> Ext(o, W("Func")),
   ident |-> Ident(o), parameter_list |-> pl, return_type |-> rt]
ProcSpecs(o) == {ProcedureSpecification(o, pl) : pl \in Params(o + 1)}
FuncSpecs(o) ==
  {FunctionSpecification(o, pl, SelDesignator(o + 1 + W("Param"), None)) :
     pl \in Params(o + 1)}
  \cup {FunctionSpecification(o, <<>>, rt) : rt \in NamesLite(o + 1 + W("Param"))}
SubprogramDeclaration(o, variant, spec) ==
  [kind |-> "SubprogramDeclaration", ext |-> Ext(o, W("Subp")),
   variant |-> variant, decl |-> spec]
SubpDecls(o) ==
  {SubprogramDeclaration(o, "Function", f) : f \in FuncSpecs(o + 1)}
  \cup {SubprogramDeclaration(o, "Procedure", p) : p \in ProcSpecs(o + 1)}
SubpLite(o) ==
  {SubprogramDeclaration(o, "Function",
     FunctionSpecification(o + 1, <<>>, SelDesignator(o + 2 + W("Param"), Some(DSelf)))),
   SubprogramDeclaration(o, "Procedure",
     ProcedureSpecification(o + 1, <<IfaceObject(o + 2, W("Param"), SubOne(o + 3))>>))}

Ifaces(o) ==
  {IfaceObject(o, W("Iface"), st) : st \in SubFull(o + 1)}
  \cup {IfaceSubprogram(o, W("Iface"), sd) : sd \in SubpDecls(o + 1)}
  \cup {IfaceOther(o, W("Iface"))}
IfaceLite(o) ==
  {IfaceObject(o, W("Iface"), SubOne(o + 1)), IfaceOther(o, W("Iface"))}
\* Option<Vec<InterfaceDeclaration>>
IfaceClauses(o) ==
  {None}
  \cup {Some(l) : l \in Singles(Ifaces(o)) \cup ListOf(IfaceLite, o, W("Iface"), MaxLen)}
IfaceClausesLite(o) == {None, Some(<<IfaceObject(o, W("Iface"), SubOne(o + 1))>>)}

\* TypeDeclaration and its TypeDefinition variants
TypeDeclaration(o, w, def) ==
  [kind |-> "TypeDeclaration", ext |-> Ext(o, w), ident |-> Ident(o), def |-> def]
DefOther == [variant |-> "Enumeration"]
DefSub(variant, st) == [variant |-> variant, subtype_indication |-> st]
DefRecord(elems) == [variant |-> "Record", elems |-> elems]
DefProtected(items) == [variant |-> "Protected", items |-> items]
DefProtectedBody(decl) == [variant |-> "ProtectedBody", decl |-> decl]
ElementDeclaration(st) == [subtype |-> st]
Elems(o) == {ElementDeclaration(st) : st \in SubTiny(o)}

\* Declaration variants
DeclObject(o, w, st) ==
  [kind |-> "Declaration", ext |-> Ext(o, w), variant |-> "Object",
   ident |-> Ident(o), object |-> [subtype_indication |-> st]]
DeclType(o, w, typ) ==
  [kind |-> "Declaration", ext |-> Ext(o, w), variant |-> "Type", typ |-> typ]
DeclSubprogramBody(o, w, spec, decls) ==
  [kind |-> "Declaration", ext |-> Ext(o, w), variant |-> "SubprogramBody",
   body |-> [specification |-> spec, declarations |-> decls]]
DeclSubprogramDeclaration(o, w, sd) ==
  [kind |-> "Declaration", ext |-> Ext(o, w), variant |-> "SubprogramDeclaration",
   decl |-> sd]
DeclAttribute(o, w, tm) ==
  [kind |-> "Declaration", ext |-> Ext(o, w), variant |-> "Attribute",
   ident |-> Ident(o), decl |-> [type_mark |-> tm]]
DeclAlias(o, w, ost) ==
  [kind |-> "Declaration", ext |-> Ext(o, w), variant |-> "Alias",
   ident |-> Ident(o), decl |-> [subtype_indication |-> ost]]
DeclOther(o, w) ==
  [kind |-> "Declaration", ext |-> Ext(o, w), variant |-> "Component",
   ident |-> Ident(o)]

\* small declarations, nested in bodies and statements
DeclIn(o) ==
  {DeclObject(o, W("DeclIn"), SubOne(o + 1)),
   DeclType(o, W("DeclIn"), TypeDeclaration(o + 1, W("TypeIn"), DefOther)),
   DeclType(o, W("DeclIn"),
            TypeDeclaration(o + 1, W("TypeIn"), DefSub("Subtype", SubOne(o + 2))))}
DeclTiny(o) ==
  {DeclObject(o, W("DeclIn"), SubOne(o + 1)),
   DeclType(o, W("DeclIn"), TypeDeclaration(o + 1, W("TypeIn"), DefOther))}
DeclsIn(o) == {<<>>} \cup Singles(DeclIn(o))

TypeDefs(o) ==
  {DefOther}
  \cup {DefSub("Subtype", st) : st \in SubFull(o)}
  \cup {DefSub("Access", st) : st \in SubTiny(o)}
  \cup {DefSub("Array", st) : st \in SubTiny(o)}
  \cup {DefRecord(l) : l \in ListOf(Elems, o, W("Sub"), MaxLen)}
  \cup {DefProtected(l) : l \in {<<>>} \cup Singles(SubpLite(o))}
  \cup {DefProtectedBody(l) : l \in DeclsIn(o)}
TypeDecls(o) == {TypeDeclaration(o, W("Type"), def) : def \in TypeDefs(o + 1)}

Decls(o) ==
  {DeclObject(o, W("Decl"), st) : st \in SubLite(o + 1)}
  \cup {DeclType(o, W("Decl"), typ) : typ \in TypeDecls(o + 1)}
  \cup {DeclSubprogramBody(o, W("Decl"), sd, l) :
          sd \in SubpLite(o + 1), l \in DeclsIn(o + 1 + W("Subp"))}
  \cup {DeclSubprogramDeclaration(o, W("Decl"), sd) : sd \in SubpDecls(o + 1)}
  \cup {DeclAttribute(o, W("Decl"), tm) : tm \in NamesLite(o + 1)}
  \cup {DeclAlias(o, W("Decl"), ost) :
          ost \in {None} \cup {Some(st) : st \in SubTiny(o + 1)}}
  \cup {DeclOther(o, W("Decl"))}
\* `type t is ...; signal s : t;`: a declaration and a use that refers to it
TypeThenUse(o) ==
  <<DeclType(o, W("DeclIn"), TypeDeclaration(o + 1, W("TypeIn"), DefOther)),
    DeclObject(o + W("DeclIn"), W("DeclIn"),
               SubtypeIndication(o + W("DeclIn") + 1,
                 SelDesignator(o + W("DeclIn") + 1, Some(TokPos(o + 1)))))>>
\* Vec<Declaration>
DeclLists(o) ==
  Singles(Decls(o)) \cup ListOf(DeclTiny, o, W("DeclIn"), MaxLen)
  \cup (IF MaxLen >= 2 THEN {TypeThenUse(o)} ELSE {})
DeclListsLite(o) == {<<>>, <<DeclObject(o, W("DeclIn"), SubOne(o + 1))>>}


\* statements: slots owned at nesting depth d, and by a generate body
RECURSIVE WS(_)
WS(d) ==
  IF d = 0 THEN W("Stmt0")
  ELSE 1 + (MaxLen + 1) * (1 + W("DeclIn") + MaxLen * WS(d - 1))
WB(d) == 1 + W("DeclIn") + MaxLen * WS(d)

LabeledSequentialStatement(o, names) ==
  [kind |-> "LabeledSequentialStatement", ext |-> Ext(o, W("Seq")),
   label |-> Ident(o), names |-> names]
SeqStmts(o) ==
  {LabeledSequentialStatement(o, <<SelDesignator(o + 1, r)>>) : r \in RefsLite}

LabeledConcurrentStatement(o, w, statement) ==
  [kind |-> "LabeledConcurrentStatement", ext |-> Ext(o, w),
   label |-> Ident(o), statement |-> statement]
Process(decl, statements) ==
  [variant |-> "Process", process |-> [decl |-> decl, statements |-> statements]]
Block(decl, statements) ==
  [variant |-> "Block", block |-> [decl |-> decl, statements |-> statements]]
ForGenerate(body) == [variant |-> "ForGenerate", gen |-> [body |-> body]]
IfGenerate(conditionals, else_item) ==
  [variant |-> "IfGenerate",
   gen |-> [conditionals |-> conditionals, else_item |-> else_item]]
CaseGenerate(alternatives) ==
  [variant |-> "CaseGenerate", gen |-> [alternatives |-> alternatives]]
\* a variant the walk does not enter; `names` are the names written inside
Instance(names) == [variant |-> "Instance", names |-> names]
GenerateBody(o, d, decl, statements) ==
  [kind |-> "GenerateBody", ext |-> Ext(o, WB(d)), decl |-> decl,
   statements |-> statements]
\* Conditional<GenerateBody> / Alternative<GenerateBody>
Item(body) == [item |-> body]

Stmt0(o) ==
  {LabeledConcurrentStatement(o, WS(0), Process(dl, <<>>)) : dl \in DeclsIn(o + 1)}
  \cup {LabeledConcurrentStatement(o, WS(0), Process(<<>>, sl)) :
          sl \in ListOf(SeqStmts, o + 1 + W("DeclIn"), W("Seq"), MaxLen)}
  \cup {LabeledConcurrentStatement(o, WS(0), Instance(<<nm>>)) : nm \in NamesTiny(o + 1)}
StmtTiny(o) ==
  {LabeledConcurrentStatement(o, WS(0),
     Process(<<DeclObject(o + 1, W("DeclIn"), SubOne(o + 2))>>, <<>>)),
   LabeledConcurrentStatement(o, WS(0),
     Instance(<<SelDesignator(o + 1, Some(DSelf))>>))}
BodyOf(o, d, s) == GenerateBody(o, d, <<>>, <<s>>)
BodyEmpty(o, d) == GenerateBody(o, d, <<>>, <<>>)
\* one statement of nesting depth at most d wrapped in a chain of
\* block / generate statements
RECURSIVE StmtsN(_, _)
StmtsN(d, o) ==
  IF d = 0 THEN StmtTiny(o)
  ELSE StmtTiny(o)
    \cup {LabeledConcurrentStatement(o, WS(d), Block(<<>>, <<s>>)) :
            s \in StmtsN(d - 1, o + 1 + W("DeclIn"))}
    \cup {LabeledConcurrentStatement(o, WS(d), st) :
            st \in UNION {
              {ForGenerate(BodyOf(o + 1, d - 1, s)),
               IfGenerate(<<Item(BodyOf(o + 1, d - 1, s))>>, None),
               CaseGenerate(<<Item(BodyOf(o + 1, d - 1, s))>>)} :
              s \in StmtsN(d - 1, o + 2 + W("DeclIn"))}}
    \cup {LabeledConcurrentStatement(o, WS(d),
            IfGenerate(<<Item(BodyEmpty(o + 1, d - 1))>>,
                       Some(BodyOf(o + 1 + MaxLen * WB(d - 1), d - 1, s)))) :
            s \in StmtsN(d - 1, o + 2 + MaxLen * WB(d - 1) + W("DeclIn"))}
BodyLite(o) ==
  {BodyEmpty(o, 0),
   GenerateBody(o, 0, <<DeclObject(o + 1, W("DeclIn"), SubOne(o + 2))>>,
     <<LabeledConcurrentStatement(o + 1 + W("DeclIn"), WS(0),
         Instance(<<SelDesignator(o + 2 + W("DeclIn"), Some(DSelf))>>))>>)}
Bodies(o) ==
  {GenerateBody(o, 0, dl, <<>>) : dl \in DeclsIn(o + 1)}
  \cup {GenerateBody(o, 0, <<>>, sl) :
          sl \in ListOf(StmtTiny, o + 1 + W("DeclIn"), WS(0), MaxLen)}
\* depth-one statements with every field varied
RichStmts(o) ==
  {LabeledConcurrentStatement(o, WS(1), Block(dl, <<>>)) : dl \in DeclsIn(o + 1)}
  \cup {LabeledConcurrentStatement(o, WS(1), Block(<<>>, sl)) :
          sl \in ListOf(StmtTiny, o + 1 + W("DeclIn"), WS(0), MaxLen)}
  \cup {LabeledConcurrentStatement(o, WS(1), ForGenerate(b)) : b \in Bodies(o + 1)}
  \cup {LabeledConcurrentStatement(o, WS(1), IfGenerate([i \in DOMAIN cl |-> Item(cl[i])], e)) :
          cl \in ListOf(BodyLite, o + 1, WB(0), MaxLen) \ {<<>>},
          e \in {None} \cup {Some(b) : b \in BodyLite(o + 1 + MaxLen * WB(0))}}
  \cup {LabeledConcurrentStatement(o, WS(1), CaseGenerate([i \in DOMAIN al |-> Item(al[i])])) :
          al \in ListOf(BodyLite, o + 1, WB(0), MaxLen)}
TopStmts(o) ==
  Stmt0(o) \cup (IF MaxNest >= 1 THEN StmtsN(MaxNest, o) \cup RichStmts(o) ELSE {})
\* Vec<LabeledConcurrentStatement>
StmtLists(o) ==
  Singles(TopStmts(o)) \cup ListOf(StmtTiny, o, WS(0), MaxLen)
StmtListsLite(o) ==
  {<<>>, <<LabeledConcurrentStatement(o, WS(0),
             Process(<<>>, <<LabeledSequentialStatement(o + 1 + W("DeclIn"),
                                <<SelDesignator(o + 2 + W("DeclIn"), Some(DSelf))>>)>>))>>}

(* ------------------------------ design units --------------------------- *)
OffGeneric == Ext(0, 1)[2] + 1
OffPort == OffGeneric + W("IfaceList")
OffDecl == OffPort + W("IfaceList")
OffStmt == OffDecl + W("DeclList")
OffEnd == OffStmt + MaxLen * WS(MaxNest)

EntityUnit(g, p, d, s) ==
  [kind |-> "EntityUnit", ext |-> Ext(0, OffEnd), source |-> UnitSource,
   ident |-> Ident(0),
   unit |-> [generic_clause |-> g, port_clause |-> p, decl |-> d, statements |-> s]]
ArchitectureUnit(d, s) ==
  [kind |-> "ArchitectureUnit", ext |-> Ext(0, OffEnd), source |-> UnitSource,
   ident |-> Ident(0), unit |-> [decl |-> d, statements |-> s]]
PackageUnit(g, d) ==
  [kind |-> "PackageUnit", ext |-> Ext(0, OffEnd), source |-> UnitSource,
   ident |-> Ident(0), unit |-> [generic_clause |-> g, decl |-> d]]
PackageBodyUnit(d) ==
  [kind |-> "PackageBodyUnit", ext |-> Ext(0, OffEnd), source |-> UnitSource,
   ident |-> Ident(0), unit |-> [decl |-> d]]
PackageInstanceUnit(nm) ==
  [kind |-> "PackageInstanceUnit", ext |-> Ext(0, OffEnd), source |-> UnitSource,
   ident |-> Ident(0), unit |-> [package_name |-> nm]]
ConfigurationUnit(nm) ==
  [kind |-> "ConfigurationUnit", ext |-> Ext(0, OffEnd), source |-> UnitSource,
   ident |-> Ident(0), unit |-> [entity_name |-> nm]]

Entities ==
  {EntityUnit(g, None, <<>>, <<>>) : g \in IfaceClauses(OffGeneric)}
  \cup {EntityUnit(None, p, <<>>, <<>>) : p \in IfaceClauses(OffPort)}
  \cup {EntityUnit(None, None, d, <<>>) : d \in DeclLists(OffDecl)}
  \cup {EntityUnit(None, None, <<>>, s) : s \in StmtLists(OffStmt)}
  \cup {EntityUnit(g, p, d, s) :
          g \in IfaceClausesLite(OffGeneric), p \in IfaceClausesLite(OffPort),
          d \in DeclListsLite(OffDecl), s \in StmtListsLite(OffStmt)}
Architectures ==
  {ArchitectureUnit(d, <<>>) : d \in DeclLists(OffDecl)}
  \cup {ArchitectureUnit(d, s) : d \in DeclListsLite(OffDecl), s \in StmtLists(OffStmt)}
Packages ==
  {PackageUnit(g, d) : g \in IfaceClauses(OffGeneric), d \in DeclListsLite(OffDecl)}
  \cup {PackageUnit(None, d) : d \in DeclLists(OffDecl)}
PackageBodies == {PackageBodyUnit(d) : d \in DeclLists(OffDecl)}
PackageInstances == {PackageInstanceUnit(nm) : nm \in NamesFull(1)}
Configurations == {ConfigurationUnit(nm) : nm \in NamesFull(1)}
\* a bare sequence or optional handed to a search
VecRoot(elems) == [kind |-> "Vec", ext |-> Ext(0, OffEnd), elems |-> elems]
OptionRoot(elems) == [kind |-> "Option", ext |-> Ext(0, OffEnd), elems |-> elems]
Containers ==
  {VecRoot(l) : l \in ListOf(DeclTiny, OffDecl, W("DeclIn"), MaxLen)}
  \cup {VecRoot(l) : l \in ListOf(SeqStmts, OffStmt, W("Seq"), MaxLen)}
  \cup {VecRoot(<<LabeledConcurrentStatement(OffStmt, WS(0), Instance(<<nm>>))>>) :
          nm \in NamesLite(OffStmt + 1)}
  \cup {OptionRoot(e) : e \in {None} \cup {Some(b) : b \in BodyLite(OffStmt)}}

UnitKinds ==
  {"EntityUnit", "ArchitectureUnit", "PackageUnit", "PackageBodyUnit",
   "PackageInstanceUnit", "ConfigurationUnit"}
Searchables ==
  Entities \cup Architectures \cup Packages \cup PackageBodies
  \cup PackageInstances \cup Configurations \cup Containers

Range(f) == {f[i] : i \in DOMAIN f}
\* the AST nodes directly owned by node n, searched or not
Kids(n) ==
  CASE n.kind = "EntityUnit" ->
         UNION {Range(l) : l \in Range(n.unit.generic_clause)}
         \cup UNION {Range(l) : l \in Range(n.unit.port_clause)}
         \cup Range(n.unit.decl) \cup Range(n.unit.statements)
    [] n.kind = "ArchitectureUnit" -> Range(n.unit.decl) \cup Range(n.unit.statements)
    [] n.kind = "PackageUnit" ->
         UNION {Range(l) : l \in Range(n.unit.generic_clause)} \cup Range(n.unit.decl)
    [] n.kind = "PackageBodyUnit" -> Range(n.unit.decl)
    [] n.kind = "PackageInstanceUnit" -> {n.unit.package_name}
    [] n.kind = "ConfigurationUnit" -> {n.unit.entity_name}
    [] n.kind \in {"Vec", "Option"} -> Range(n.elems)
    [] n.kind = "GenerateBody" -> Range(n.decl) \cup Range(n.statements)
    [] n.kind = "LabeledSequentialStatement" -> Range(n.names)
    [] n.kind = "LabeledConcurrentStatement" ->
         LET st == n.statement IN
         CASE st.variant = "Block" -> Range(st.block.decl) \cup Range(st.block.statements)
           [] st.variant = "Process" ->
                Range(st.process.decl) \cup Range(st.process.statements)
           [] st.variant = "ForGenerate" -> {st.gen.body}
           [] st.variant = "IfGenerate" ->
                {c.item : c \in Range(st.gen.conditionals)} \cup Range(st.gen.else_item)
           [] st.variant = "CaseGenerate" -> {a.item : a \in Range(st.gen.alternatives)}
           [] OTHER -> Range(st.names)
    [] n.kind = "Declaration" ->
         CASE n.variant = "Object" -> {n.object.subtype_indication}
           [] n.variant = "Type" -> {n.typ}
           [] n.variant = "SubprogramBody" ->
                {n.body.specification} \cup Range(n.body.declarations)
           [] n.variant = "SubprogramDeclaration" -> {n.decl}
           [] n.variant = "Attribute" -> {n.decl.type_mark}
           [] n.variant = "Alias" -> Range(n.decl.subtype_indication)
           [] OTHER -> {}
    [] n.kind = "TypeDeclaration" ->
         CASE n.def.variant = "ProtectedBody" -> Range(n.def.decl)
           [] n.def.variant = "Protected" -> Range(n.def.items)
           [] n.def.variant = "Record" -> {e.subtype : e \in Range(n.def.elems)}
           [] n.def.variant \in {"Access", "Array", "Subtype"} ->
                {n.def.subtype_indication}
           [] OTHER -> {}
    [] n.kind = "InterfaceDeclaration" ->
         CASE n.variant = "Object" -> {n.decl.subtype_indication}
           [] n.variant = "Subprogram" -> {n.decl}
           [] OTHER -> {}
    [] n.kind = "SubprogramDeclaration" -> {n.decl}
    [] n.kind = "ProcedureSpecification" -> Range(n.parameter_list)
    [] n.kind = "FunctionSpecification" -> Range(n.parameter_list) \cup {n.return_type}
    [] n.kind = "SubtypeIndication" -> {n.type_mark}
    [] n.kind = "SelectedName" ->
         IF n.item.variant = "Selected" THEN {n.item.prefix, n.item.designator} ELSE {}
    [] OTHER -> {}
RECURSIVE Nodes(_)
Nodes(n) == {n} \cup UNION {Nodes(k) : k \in Kids(n)}


(* ------------------------------ searchers ------------------------------ *)
ItemAtCursor_new(source, cursor) ==
  [kind |-> "ItemAtCursor", source |-> source, cursor |-> cursor, trace |-> <<>>]
FindAllReferences_new(decl_pos) ==
  [kind |-> "FindAllReferences", decl_pos |-> decl_pos, references |-> <<>>,
   trace |-> <<>>]
\* a Searcher that overrides no hook
DefaultSearcher_new == [kind |-> "Default", trace |-> <<>>]

\* what a hook hands back: its SearchState and the searcher after the call
H(state, searcher) == [state |-> state, searcher |-> searcher]
\* what a search hands back: its SearchResult and the searcher after the call
R(result, searcher) == [result |-> result, searcher |-> searcher]
IsFound(r) == r.result.tag = "Found"

\* trait Searcher: every hook defaults to NotFinished
Searcher_default(s) == H(NotFinished, s)

ItemAtCursor_is_inside(s, pos) == pos.start <= s.cursor /\ s.cursor <= pos.end

\* faulty variant: the span test is dropped, every name is descended into
ItemAtCursor_search_with_pos_NoPrune(s, pos) == H(NotFinished, s)

ItemAtCursor_search_with_pos(s, pos) ==
  IF ItemAtCursor_is_inside(s, pos) THEN H(NotFinished, s) ELSE H(Finished(NotFound), s)

ItemAtCursor_search_entity(s, ent) ==
  LET pos == ent.ident.pos IN
  IF ItemAtCursor_is_inside(s, pos) THEN H(Finished(Found(pos)), s)
  ELSE H(NotFinished, s)

\* faulty variant: a resolved name is Found wherever the cursor is
ItemAtCursor_search_designator_ref_NoInsideCheck(s, pos, designator) ==
  IF designator.reference # None
  THEN H(Finished(Found(designator.reference[1])), s)
  ELSE H(Finished(NotFound), s)

ItemAtCursor_search_designator_ref(s, pos, designator) ==
  IF ~ItemAtCursor_is_inside(s, pos) THEN H(Finished(NotFound), s)
  ELSE IF designator.reference # None
       THEN H(Finished(Found(designator.reference[1])), s)
       ELSE H(Finished(NotFound), s)

ItemAtCursor_search_type_declaration(s, decl) ==
  IF ItemAtCursor_is_inside(s, decl.ident.pos)
  THEN H(Finished(Found(decl.ident.pos)), s)
  ELSE H(Finished(NotFound), s)

\* faulty variant: the unit's source is not compared with the query's
ItemAtCursor_search_source_Ignored(s, source) == H(NotFinished, s)

ItemAtCursor_search_source(s, source) ==
  IF source = s.source THEN H(NotFinished, s) ELSE H(Finished(NotFound), s)

FindAllReferences_search_decl_pos(s, decl_pos) ==
  IF decl_pos = s.decl_pos
  THEN [s EXCEPT !.references = Append(@, decl_pos)]
  ELSE s

FindAllReferences_search_entity(s, ent) ==
  H(NotFinished, FindAllReferences_search_decl_pos(s, ent.ident.pos))

\* faulty variant: a matching use is recorded and the walk of the name ends
FindAllReferences_search_designator_ref_Stops(s, pos, designator) ==
  IF designator.reference # None /\ designator.reference[1] = s.decl_pos
  THEN H(Finished(NotFound), [s EXCEPT !.references = Append(@, pos)])
  ELSE H(NotFinished, s)

FindAllReferences_search_designator_ref(s, pos, designator) ==
  H(NotFinished,
    IF designator.reference # None /\ designator.reference[1] = s.decl_pos
    THEN [s EXCEPT !.references = Append(@, pos)]
    ELSE s)

\* the instrumented call of a hook: the outcome, with the call recorded
Logged(hook, ext, out) ==
  H(out.state,
    [out.searcher EXCEPT
       !.trace = Append(@, [hook |-> hook, ext |-> ext, state |-> out.state])])

\* dispatch of each hook to the searcher's implementation
search_labeled_concurrent_statement(s, stmt) ==
  Logged("search_labeled_concurrent_statement", stmt.ext, Searcher_default(s))
search_labeled_sequential_statement(s, stmt) ==
  Logged("search_labeled_sequential_statement", stmt.ext, Searcher_default(s))
search_declaration(s, decl) ==
  Logged("search_declaration", decl.ext, Searcher_default(s))
search_type_declaration(s, decl) ==
  Logged("search_type_declaration", decl.ext,
         IF s.kind = "ItemAtCursor" THEN ItemAtCursor_search_type_declaration(s, decl)
         ELSE Searcher_default(s))
search_interface_declaration(s, decl) ==
  Logged("search_interface_declaration", decl.ext, Searcher_default(s))
search_subtype_indication(s, decl) ==
  Logged("search_subtype_indication", decl.ext, Searcher_default(s))
search_entity(s, ent) ==
  Logged("search_entity", ent.ext,
         CASE s.kind = "ItemAtCursor" -> ItemAtCursor_search_entity(s, ent)
           [] s.kind = "FindAllReferences" -> FindAllReferences_search_entity(s, ent)
           [] OTHER -> Searcher_default(s))
search_designator_ref(s, ext, pos, designator) ==
  Logged("search_designator_ref", ext,
         CASE s.kind = "ItemAtCursor" ->
                ItemAtCursor_search_designator_ref(s, pos, designator)
           [] s.kind = "FindAllReferences" ->
                FindAllReferences_search_designator_ref(s, pos, designator)
           [] OTHER -> Searcher_default(s))
search_with_pos(s, ext, pos) ==
  Logged("search_with_pos", ext,
         IF s.kind = "ItemAtCursor" THEN ItemAtCursor_search_with_pos(s, pos)
         ELSE Searcher_default(s))
search_source(s, ext, source) ==
  Logged("search_source", ext,
         IF s.kind = "ItemAtCursor" THEN ItemAtCursor_search_source(s, source)
         ELSE Searcher_default(s))

(* ------------------------------ traversal ------------------------------ *)
\* SearchState::or_else: `nested` is only evaluated when the hook is undecided
or_else(h, nested) ==
  IF h.state.tag = "Finished" THEN R(h.state.result, h.searcher) ELSE nested
or_not_found(h) == or_else(h, R(NotFound, h.searcher))
\* return_if!(r); rest
return_if(r, rest) == IF IsFound(r) THEN r ELSE rest
\* return_if!(r); NotFound
return_if_else_NotFound(r) == return_if(r, R(NotFound, r.searcher))

RECURSIVE Search(_, _)

\* faulty variant: the loop returns whatever its first element returned
Search_Vec_StopsOnFirst(v, s) ==
  IF v = <<>> THEN R(NotFound, s) ELSE Search(Head(v), s)

RECURSIVE Search_Vec(_, _)
Search_Vec(v, s) ==
  IF v = <<>> THEN R(NotFound, s)
  ELSE LET r == Search(Head(v), s) IN
       return_if(r, Search_Vec(Tail(v), r.searcher))

RECURSIVE Search_Option(_, _)
Search_Option(v, s) ==
  IF v = <<>> THEN R(NotFound, s)
  ELSE LET r == Search(Head(v), s) IN
       return_if(r, Search_Option(Tail(v), r.searcher))

\* Option<Vec<InterfaceDeclaration>>: the element is itself a Vec
RECURSIVE Search_Option_Vec(_, _)
Search_Option_Vec(v, s) ==
  IF v = <<>> THEN R(NotFound, s)
  ELSE LET r == Search_Vec(Head(v), s) IN
       return_if(r, Search_Option_Vec(Tail(v), r.searcher))

\* faulty variant: the names of the statement are searched after its hook
Search_LabeledSequentialStatement_Descends(n, s) ==
  LET h == search_labeled_sequential_statement(s, n) IN
  or_else(h, Search_Vec(n.names, h.searcher))

Search_LabeledSequentialStatement(n, s) ==
  LET h == search_labeled_sequential_statement(s, n) IN
  or_else(h, R(NotFound, h.searcher))

Search_GenerateBody(n, s) ==
  LET r == Search_Vec(n.decl, s) IN
  return_if(r, Search_Vec(n.statements, r.searcher))

\* for conditional in gen.conditionals.iter() { return_if!(conditional.item.search(..)) }
RECURSIVE Search_items(_, _)
Search_items(v, s) ==
  IF v = <<>> THEN R(NotFound, s)
  ELSE LET r == Search(Head(v).item, s) IN
       return_if(r, Search_items(Tail(v), r.searcher))

Search_LabeledConcurrentStatement(n, s) ==
  LET h == search_labeled_concurrent_statement(s, n)
      st == n.statement
  IN or_else(h,
       CASE st.variant = "Block" ->
              LET r == Search_Vec(st.block.decl, h.searcher) IN
              return_if(r, Search_Vec(st.block.statements, r.searcher))
         [] st.variant = "Process" ->
              LET r == Search_Vec(st.process.decl, h.searcher) IN
              return_if(r, Search_Vec(st.process.statements, r.searcher))
         [] st.variant = "ForGenerate" -> Search(st.gen.body, h.searcher)
         [] st.variant = "IfGenerate" ->
              LET r == Search_items(st.gen.conditionals, h.searcher) IN
              return_if(r, Search_Option(st.gen.else_item, r.searcher))
         [] st.variant = "CaseGenerate" ->
              Search_items(st.gen.alternatives, h.searcher)
         [] OTHER -> R(NotFound, h.searcher))

Search_WithPos_WithRef_Designator(n, s) ==
  LET h == search_with_pos(s, n.ext, n.pos) IN
  or_else(h, or_not_found(search_designator_ref(h.searcher, n.ext, n.pos, n.item)))

Search_WithPos_SelectedName(n, s) ==
  IF n.item.variant = "Selected"
  THEN LET r == Search(n.item.prefix, s) IN
       return_if(r, return_if_else_NotFound(Search(n.item.designator, r.searcher)))
  ELSE or_not_found(search_designator_ref(s, n.ext, n.pos, n.item.designator))

Search_SubtypeIndication(n, s) ==
  LET h == search_subtype_indication(s, n) IN
  or_else(h, return_if_else_NotFound(Search(n.type_mark, h.searcher)))

\* for elem in element_decls { return_if!(elem.subtype.search(..)) }
RECURSIVE Search_elems(_, _)
Search_elems(v, s) ==
  IF v = <<>> THEN R(NotFound, s)
  ELSE LET r == Search(Head(v).subtype, s) IN
       return_if(r, Search_elems(Tail(v), r.searcher))

Search_TypeDeclaration(n, s) ==
  LET h == search_type_declaration(s, n)
      def == n.def
  IN or_else(h,
       CASE def.variant = "ProtectedBody" ->
              return_if_else_NotFound(Search_Vec(def.decl, h.searcher))
         [] def.variant = "Protected" ->
              return_if_else_NotFound(Search_Vec(def.items, h.searcher))
         [] def.variant = "Record" ->
              return_if_else_NotFound(Search_elems(def.elems, h.searcher))
         [] def.variant \in {"Access", "Array", "Subtype"} ->
              return_if_else_NotFound(Search(def.subtype_indication, h.searcher))
         [] OTHER -> R(NotFound, h.searcher))

Search_Declaration(n, s) ==
  LET h == search_declaration(s, n) IN
  or_else(h,
    CASE n.variant = "Object" ->
           return_if_else_NotFound(Search(n.object.subtype_indication, h.searcher))
      [] n.variant = "Type" -> return_if_else_NotFound(Search(n.typ, h.searcher))
      [] n.variant = "SubprogramBody" ->
           LET r == Search(n.body.specification, h.searcher) IN
           return_if(r, return_if_else_NotFound(Search_Vec(n.body.declarations, r.searcher)))
      [] n.variant = "SubprogramDeclaration" ->
           return_if_else_NotFound(Search(n.decl, h.searcher))
      [] n.variant = "Attribute" ->
           return_if_else_NotFound(Search(n.decl.type_mark, h.searcher))
      [] n.variant = "Alias" ->
           return_if_else_NotFound(Search_Option(n.decl.subtype_indication, h.searcher))
      [] OTHER -> R(NotFound, h.searcher))

Search_InterfaceDeclaration(n, s) ==
  LET h == search_interface_declaration(s, n) IN
  or_else(h,
    CASE n.variant = "Object" ->
           return_if_else_NotFound(Search(n.decl.subtype_indication, h.searcher))
      [] n.variant = "Subprogram" ->
           return_if_else_NotFound(Search(n.decl, h.searcher))
      [] OTHER -> R(NotFound, h.searcher))

Search_SubprogramDeclaration(n, s) ==
  return_if_else_NotFound(Search(n.decl, s))

Search_ProcedureSpecification(n, s) == Search_Vec(n.parameter_list, s)

Search_FunctionSpecification(n, s) ==
  LET r == Search_Vec(n.parameter_list, s) IN
  return_if(r, Search(n.return_type, r.searcher))

\* faulty variant: the port clause is searched before the generic clause
Search_EntityUnit_PortsFirst(n, s) ==
  LET hs == search_source(s, n.ext, n.source) IN
  or_else(hs,
    LET he == search_entity(hs.searcher, n) IN
    or_else(he,
      LET p == Search_Option_Vec(n.unit.port_clause, he.searcher) IN
      return_if(p,
        LET g == Search_Option_Vec(n.unit.generic_clause, p.searcher) IN
        return_if(g,
          LET d == Search_Vec(n.unit.decl, g.searcher) IN
          return_if(d, Search_Vec(n.unit.statements, d.searcher))))))

Search_EntityUnit(n, s) ==
  LET hs == search_source(s, n.ext, n.source) IN
  or_else(hs,
    LET he == search_entity(hs.searcher, n) IN
    or_else(he,
      LET g == Search_Option_Vec(n.unit.generic_clause, he.searcher) IN
      return_if(g,
        LET p == Search_Option_Vec(n.unit.port_clause, g.searcher) IN
        return_if(p,
          LET d == Search_Vec(n.unit.decl, p.searcher) IN
          return_if(d, Search_Vec(n.unit.statements, d.searcher))))))

Search_ArchitectureUnit(n, s) ==
  LET hs == search_source(s, n.ext, n.source) IN
  or_else(hs,
    LET d == Search_Vec(n.unit.decl, hs.searcher) IN
    return_if(d, Search_Vec(n.unit.statements, d.searcher)))

Search_PackageUnit(n, s) ==
  LET hs == search_source(s, n.ext, n.source) IN
  or_else(hs,
    LET g == Search_Option_Vec(n.unit.generic_clause, hs.searcher) IN
    return_if(g, Search_Vec(n.unit.decl, g.searcher)))

Search_PackageBodyUnit(n, s) ==
  LET hs == search_source(s, n.ext, n.source) IN
  or_else(hs, Search_Vec(n.unit.decl, hs.searcher))

Search_PackageInstanceUnit(n, s) ==
  LET hs == search_source(s, n.ext, n.source) IN
  or_else(hs, Search(n.unit.package_name, hs.searcher))

Search_ConfigurationUnit(n, s) ==
  LET hs == search_source(s, n.ext, n.source) IN
  or_else(hs, Search(n.unit.entity_name, hs.searcher))

\* static dispatch of `x.search(searcher)` on the type of x
Search(n, s) ==
  CASE n.kind = "EntityUnit" -> Search_EntityUnit(n, s)
    [] n.kind = "ArchitectureUnit" -> Search_ArchitectureUnit(n, s)
    [] n.kind = "PackageUnit" -> Search_PackageUnit(n, s)
    [] n.kind = "PackageBodyUnit" -> Search_PackageBodyUnit(n, s)
    [] n.kind = "PackageInstanceUnit" -> Search_PackageInstanceUnit(n, s)
    [] n.kind = "ConfigurationUnit" -> Search_ConfigurationUnit(n, s)
    [] n.kind = "Vec" -> Search_Vec(n.elems, s)
    [] n.kind = "Option" -> Search_Option(n.elems, s)
    [] n.kind = "GenerateBody" -> Search_GenerateBody(n, s)
    [] n.kind = "LabeledConcurrentStatement" -> Search_LabeledConcurrentStatement(n, s)
    [] n.kind = "LabeledSequentialStatement" -> Search_LabeledSequentialStatement(n, s)
    [] n.kind = "Declaration" -> Search_Declaration(n, s)
    [] n.kind = "TypeDeclaration" -> Search_TypeDeclaration(n, s)
    [] n.kind = "InterfaceDeclaration" -> Search_InterfaceDeclaration(n, s)
    [] n.kind = "SubprogramDeclaration" -> Search_SubprogramDeclaration(n, s)
    [] n.kind = "ProcedureSpecification" -> Search_ProcedureSpecification(n, s)
    [] n.kind = "FunctionSpecification" -> Search_FunctionSpecification(n, s)
    [] n.kind = "SubtypeIndication" -> Search_SubtypeIndication(n, s)
    [] n.kind = "SelectedName" -> Search_WithPos_SelectedName(n, s)
    [] n.kind = "Designator" -> Search_WithPos_WithRef_Designator(n, s)

\* FindAllReferences::search: the walk's result is dropped, the accumulator returned
FindAllReferences_search(s, searchable) == Search(searchable, s).searcher.references

(* ------------------------------ state machine -------------------------- *)
VARIABLES
  tree,        \* the searchable handed to the query (immutable during searches)
  searcher,    \* the searcher of the last query, as the walk left it
  result,      \* the SearchResult the walk of the last query returned
  references   \* what FindAllReferences::search returned
vars == <<tree, searcher, result, references>>

\* identifier tokens of the tree, and the cursor positions on and next to them
TokenSpans(t) ==
  {n.pos : n \in {m \in Nodes(t) : m.kind \in {"Designator", "SelectedName"}
                                    /\ m.ext[1] = m.ext[2]}}
  \cup {n.ident.pos : n \in {m \in Nodes(t) : m.kind \in UnitKinds \cup {"TypeDeclaration"}}}
Cursors(t) == UNION {(p.start - 1)..(p.end + 1) : p \in TokenSpans(t)}
\* declaration spans a reference query may ask for
Targets(t) ==
  {DSelf, DExt} \cup {n.ident.pos : n \in {m \in Nodes(t) : m.kind = "TypeDeclaration"}}

Idle == [kind |-> "Idle", trace |-> <<>>]

Init ==
  /\ tree \in Searchables
  /\ searcher = Idle
  /\ result = NotFound
  /\ references = <<>>

\* one query runs at a time, each with a searcher of its own
ItemAtCursorSearch ==
  /\ searcher = Idle
  /\ \E source \in Sources, cursor \in Cursors(tree) :
       LET r == Search(tree, ItemAtCursor_new(source, cursor)) IN
       /\ searcher' = r.searcher
       /\ result' = r.result
       /\ references' = <<>>
       /\ UNCHANGED tree

FindAllReferencesSearch ==
  /\ searcher = Idle
  /\ \E decl_pos \in Targets(tree) :
       LET r == Search(tree, FindAllReferences_new(decl_pos)) IN
       /\ searcher' = r.searcher
       /\ result' = r.result
       /\ references' = FindAllReferences_search(FindAllReferences_new(decl_pos), tree)
       /\ UNCHANGED tree

DefaultSearch ==
  /\ searcher = Idle
  /\ LET r == Search(tree, DefaultSearcher_new) IN
     /\ searcher' = r.searcher
     /\ result' = r.result
     /\ references' = <<>>
     /\ UNCHANGED tree

\* the searcher and what it returned are dropped once the caller is done
Discard ==
  /\ searcher # Idle
  /\ searcher' = Idle
  /\ result' = NotFound
  /\ references' = <<>>
  /\ UNCHANGED tree

Next == ItemAtCursorSearch \/ FindAllReferencesSearch \/ DefaultSearch \/ Discard

Spec == Init /\ [][Next]_vars

TypeOK ==
  /\ searcher.kind \in {"Idle", "ItemAtCursor", "FindAllReferences", "Default"}
  /\ result.tag \in {"Found", "NotFound"}

(* ------------------------------ properties ----------------------------- *)
Trace == searcher.trace
IsCursorQuery == searcher.kind = "ItemAtCursor"
IsReferenceQuery == searcher.kind = "FindAllReferences"
IsUnit(t) == t.kind \in UnitKinds
\* s <= c <= e
CursorIn(c, pos) == pos.start <= c /\ c <= pos.end
ExtIn(a, b) == b[1] <= a[1] /\ a[2] <= b[2]
ExtStrictIn(a, b) == ExtIn(a, b) /\ a # b
\* name occurrences: a designator with its span and resolved reference
IsNameOccurrence(n) ==
  n.kind = "Designator" \/ (n.kind = "SelectedName" /\ n.item.variant = "Designator")
RefOf(n) ==
  IF n.kind = "Designator" THEN n.item.reference ELSE n.item.designator.reference
NameOccurrences(t) == {n \in Nodes(t) : IsNameOccurrence(n)}
TypeDeclarations(t) == {n \in Nodes(t) : n.kind = "TypeDeclaration"}
\* statements the traversal rules give no descent
IsUntraversed(n) ==
  \/ n.kind = "LabeledSequentialStatement"
  \/ /\ n.kind = "LabeledConcurrentStatement"
     /\ n.statement.variant \notin
          {"Block", "Process", "ForGenerate", "IfGenerate", "CaseGenerate"}
\* the nodes the traversal rules of the design reach when no hook stops them
RECURSIVE WalkedNodes(_)
WalkedNodes(n) ==
  {n} \cup (IF IsUntraversed(n) THEN {} ELSE UNION {WalkedNodes(k) : k \in Kids(n)})
Invoked(hook, ext) ==
  \E i \in 1..Len(Trace) : Trace[i].hook = hook /\ Trace[i].ext = ext
\* the hooks the Searcher trait offers for a node, as <<hook, node>> pairs
HooksOf(n) ==
  CASE n.kind \in UnitKinds ->
         {<<"search_source", n.ext>>}
           \cup (IF n.kind = "EntityUnit" THEN {<<"search_entity", n.ext>>} ELSE {})
    [] n.kind = "LabeledConcurrentStatement" ->
         {<<"search_labeled_concurrent_statement", n.ext>>}
    [] n.kind = "LabeledSequentialStatement" ->
         {<<"search_labeled_sequential_statement", n.ext>>}
    [] n.kind = "Declaration" -> {<<"search_declaration", n.ext>>}
    [] n.kind = "TypeDeclaration" -> {<<"search_type_declaration", n.ext>>}
    [] n.kind = "InterfaceDeclaration" -> {<<"search_interface_declaration", n.ext>>}
    [] n.kind = "SubtypeIndication" -> {<<"search_subtype_indication", n.ext>>}
    [] n.kind = "Designator" ->
         {<<"search_with_pos", n.ext>>, <<"search_designator_ref", n.ext>>}
    [] n.kind = "SelectedName" /\ n.item.variant = "Designator" ->
         {<<"search_designator_ref", n.ext>>}
    [] OTHER -> {}
\* every hook of every node the traversal rules reach
ExpectedHooks(t) == UNION {HooksOf(n) : n \in WalkedNodes(t)}

(* C1 (reference-follow): an ItemAtCursor query on a unit of the query's   *)
(* source, with the cursor inside a name occurrence whose resolved         *)
(* reference is D, returns Found(D).  Stated here for the occurrences the  *)
(* traversal rules reach, names inside type definitions included; the      *)
(* claim also covers names inside sequential statements, which C10 shows   *)
(* are never visited.                                                      *)
C1_ReferenceFollow ==
  (IsCursorQuery /\ IsUnit(tree) /\ tree.source = searcher.source) =>
    \A n \in NameOccurrences(tree) \cap WalkedNodes(tree) :
      (CursorIn(searcher.cursor, n.pos) /\ RefOf(n) # None) =>
        result = Found(RefOf(n)[1])

(* C2 (declaration-on-self): an ItemAtCursor query on a unit of the        *)
(* query's source, with the cursor inside the identifier span of the       *)
(* entity unit or of a type declaration of the tree (both ends inclusive), *)
(* returns Found with exactly that identifier span.                        *)
C2_DeclarationOnSelf ==
  (IsCursorQuery /\ IsUnit(tree) /\ tree.source = searcher.source) =>
    /\ (tree.kind = "EntityUnit" /\ CursorIn(searcher.cursor, tree.ident.pos)) =>
         result = Found(tree.ident.pos)
    /\ \A n \in TypeDeclarations(tree) :
         CursorIn(searcher.cursor, n.ident.pos) => result = Found(n.ident.pos)

(* C3 (completeness of reference collection): for a target span D that is  *)
(* a declaration site of the tree and the resolved reference of N name     *)
(* occurrences anywhere in the tree, FindAllReferences::search returns     *)
(* exactly N+1 spans.                                                      *)
DeclarationSites(t) ==
  (IF t.kind = "EntityUnit" THEN {t.ident.pos} ELSE {})
  \cup {n.ident.pos : n \in TypeDeclarations(t)}
UsesOf(t, d) == {n \in NameOccurrences(t) : RefOf(n) = Some(d)}
C3_ReferencesComplete ==
  (IsReferenceQuery /\ searcher.decl_pos \in DeclarationSites(tree)
     /\ UsesOf(tree, searcher.decl_pos) # {}) =>
    Len(references) = Cardinality(UsesOf(tree, searcher.decl_pos)) + 1

C5_SourcePruning ==
  /\ (IsCursorQuery /\ IsUnit(tree) /\ tree.source # searcher.source) =>
       /\ result = NotFound
       /\ Len(Trace) = 1
       /\ Trace[1].hook = "search_source"
       /\ Trace[1].state = Finished(NotFound)
  /\ (searcher # Idle /\ tree.kind \in {"Vec", "Option"} /\ tree.elems = <<>>) =>
       (result = NotFound /\ Trace = <<>>)
\* a unit of another source, with names under the cursor, was skipped
C5_Witness ==
  /\ IsCursorQuery
  /\ tree.kind = "PackageBodyUnit"
  /\ tree.source # searcher.source
  /\ \E n \in NameOccurrences(tree) :
       CursorIn(searcher.cursor, n.pos) /\ RefOf(n) # None
  /\ result = NotFound

(* C6 (no short-circuit): under FindAllReferences every hook returns       *)
(* NotFinished, the walk never yields Found, and the hooks invoked are     *)
(* exactly, in order, those a Searcher with only default hooks is given:   *)
(* every hook of every node the traversal rules reach.                     *)
HookSeq(tr) == [i \in 1..Len(tr) |-> <<tr[i].hook, tr[i].ext>>]
DefaultTrace == Search(tree, DefaultSearcher_new).searcher.trace
C6_NeverShortCircuits ==
  IsReferenceQuery =>
    /\ \A i \in 1..Len(Trace) : Trace[i].state = NotFinished
    /\ result = NotFound
    /\ HookSeq(Trace) = HookSeq(DefaultTrace)
    /\ Range(HookSeq(Trace)) = ExpectedHooks(tree)
\* a reference query that matched the entity and a use, and walked on
C6_Witness ==
  /\ IsReferenceQuery
  /\ Len(references) >= 2
  /\ Trace[Len(Trace)].hook # "search_designator_ref"
  /\ \E i \in 1..Len(Trace) : Trace[i].hook = "search_entity"

(* C7 (Finished(NotFound) is local): after a hook returned                 *)
(* Finished(NotFound) for a node no hook is invoked for that node or its   *)
(* children, and nothing else is skipped: the hooks invoked are, in order, *)
(* those of the full walk without the ones under a node so stopped, up to  *)
(* the first Found; when the search returns NotFound they are all the      *)
(* hooks of the reachable nodes that are under no stopped node, siblings   *)
(* of stopped and of fruitless nodes included.                             *)
Stops(p, d) ==
  /\ p.state = Finished(NotFound)
  /\ \/ ExtStrictIn(d[2], p.ext)
     \/ d[2] = p.ext /\ p.hook \in {"search_source", "search_with_pos"} /\ d[1] # p.hook
Unstopped(d) == \A i \in 1..Len(Trace) : ~Stops(Trace[i], d)
C7_NotFoundIsLocal ==
  IsCursorQuery =>
    LET kept == SelectSeq(HookSeq(DefaultTrace), Unstopped) IN
    /\ Len(Trace) <= Len(kept)
    /\ HookSeq(Trace) = SubSeq(kept, 1, Len(Trace))
    /\ result = NotFound =>
         /\ Len(Trace) = Len(kept)
         /\ Range(HookSeq(Trace)) = {d \in ExpectedHooks(tree) : Unstopped(d)}
\* a subtree was stopped with Finished(NotFound) and a later node was Found
C7_Witness ==
  /\ IsCursorQuery
  /\ IsUnit(tree)
  /\ result.tag = "Found"
  /\ \E i \in 1..Len(Trace) :
       /\ Trace[i].state = Finished(NotFound)
       /\ Trace[i].hook = "search_type_declaration"

(* C8 (hook first, fixed order, first Found wins): a node's hook is        *)
(* invoked before any hook of its children, and those only when it         *)
(* returned NotFinished; hooks are invoked in the declared order, which is *)
(* the order of the document (for an entity: source hook, entity hook,     *)
(* generics, ports, declarations, statements; for an if-generate: the      *)
(* conditional branches, then the else branch); once a hook yields         *)
(* Found(v) no further hook is invoked and the search returns Found(v).    *)
SameNodeOrder ==
  {<<"search_source", "search_entity">>, <<"search_with_pos", "search_designator_ref">>}
IsFoundState(st) == st.tag = "Finished" /\ st.result.tag = "Found"
C8_HookOrder ==
  searcher # Idle =>
    /\ \A i, j \in 1..Len(Trace) :
         ExtStrictIn(Trace[j].ext, Trace[i].ext) =>
           (i < j /\ Trace[i].state = NotFinished)
    /\ \A i, j \in 1..Len(Trace) :
         i < j =>
           \/ ExtStrictIn(Trace[j].ext, Trace[i].ext)
           \/ /\ Trace[j].ext = Trace[i].ext
              /\ <<Trace[i].hook, Trace[j].hook>> \in SameNodeOrder
              /\ Trace[i].state = NotFinished
           \/ Trace[i].ext[2] < Trace[j].ext[1]
    /\ IsUnit(tree) =>
         /\ Trace[1].hook = "search_source"
         /\ (tree.kind = "EntityUnit" /\ Len(Trace) >= 2) =>
              Trace[2].hook = "search_entity"
    /\ \A i \in 1..Len(Trace) :
         IsFoundState(Trace[i].state) =>
           (i = Len(Trace) /\ result = Trace[i].state.result)
    /\ result.tag = "Found" =>
         (Len(Trace) >= 1 /\ Trace[Len(Trace)].state = Finished(result))
\* an entity whose generics and ports were walked, whose declarations gave
\* Found, and whose statements were therefore never offered to a hook
C8_Witness ==
  /\ IsCursorQuery
  /\ tree.kind = "EntityUnit"
  /\ result.tag = "Found"
  /\ tree.unit.statements # <<>>
  /\ \E i, j, k \in 1..Len(Trace) :
       /\ i < j /\ j < k
       /\ Trace[i].hook = "search_interface_declaration" /\ Trace[i].ext[1] < OffPort
       /\ Trace[j].hook = "search_interface_declaration" /\ Trace[j].ext[1] >= OffPort
       /\ Trace[k].hook = "search_declaration"
  /\ \A i \in 1..Len(Trace) : Trace[i].hook # "search_labeled_concurrent_statement"

(* C9 (soundness of cursor lookup): an ItemAtCursor query returns Found(v) *)
(* only if the cursor is inside the identifier span v of the visited       *)
(* entity or of a visited type declaration, or inside a visited name       *)
(* occurrence whose resolved reference is v; so a cursor outside every     *)
(* span of the tree, or on a name without a reference, yields NotFound.    *)
C9_FoundIsSound ==
  IsCursorQuery =>
    /\ result.tag = "Found" =>
         \/ /\ tree.kind = "EntityUnit"
            /\ Invoked("search_entity", tree.ext)
            /\ CursorIn(searcher.cursor, tree.ident.pos)
            /\ result.value = tree.ident.pos
         \/ \E n \in TypeDeclarations(tree) :
              /\ Invoked("search_type_declaration", n.ext)
              /\ CursorIn(searcher.cursor, n.ident.pos)
              /\ result.value = n.ident.pos
         \/ \E n \in NameOccurrences(tree) :
              /\ Invoked("search_designator_ref", n.ext)
              /\ CursorIn(searcher.cursor, n.pos)
              /\ RefOf(n) = Some(result.value)
    /\ (\A p \in TokenSpans(tree) : ~CursorIn(searcher.cursor, p)) => result = NotFound
    /\ \A n \in NameOccurrences(tree) :
         (CursorIn(searcher.cursor, n.pos) /\ RefOf(n) = None) => result = NotFound
\* the cursor on the last character boundary of a use: Found(its reference)
C9_Witness ==
  /\ IsCursorQuery
  /\ IsUnit(tree)
  /\ \E n \in NameOccurrences(tree) :
       /\ searcher.cursor = n.pos.end
       /\ RefOf(n) = Some(DExt)
       /\ result = Found(DExt)

(* C10 (untraversed statements): for a labeled sequential statement, and   *)
(* for a labeled concurrent statement that is no block, process or         *)
(* generate, the only hook invoked is the statement's own, at most once,   *)
(* and none for a name nested inside; with only such statements to search, *)
(* the search yields NotFound.                                             *)
OwnHook(n) ==
  IF n.kind = "LabeledSequentialStatement"
  THEN "search_labeled_sequential_statement"
  ELSE "search_labeled_concurrent_statement"
C10_UntraversedStatements ==
  searcher # Idle =>
    /\ \A n \in {m \in Nodes(tree) : IsUntraversed(m)} :
         /\ \A i \in 1..Len(Trace) :
              ExtIn(Trace[i].ext, n.ext) =>
                /\ Trace[i].ext = n.ext
                /\ Trace[i].hook = OwnHook(n)
                /\ Trace[i].state = NotFinished
         /\ \A i, j \in 1..Len(Trace) :
              (Trace[i].ext = n.ext /\ Trace[j].ext = n.ext) => i = j
    /\ (tree.kind = "Vec" /\ \A i \in DOMAIN tree.elems : IsUntraversed(tree.elems[i])) =>
         /\ result = NotFound
         /\ HookSeq(Trace) =
              [i \in DOMAIN tree.elems |-> <<OwnHook(tree.elems[i]), tree.elems[i].ext>>]
\* the cursor on a resolved name inside a statement that was offered to its
\* hook: nothing is found
C10_Witness ==
  /\ IsCursorQuery
  /\ IsUnit(tree)
  /\ tree.source = searcher.source
  /\ result = NotFound
  /\ \E n \in {m \in Nodes(tree) : IsUntraversed(m)} :
       /\ Invoked(OwnHook(n), n.ext)
       /\ \E k \in Kids(n) : CursorIn(searcher.cursor, k.pos) /\ RefOf(k) # None
=============================================================================
